---- MODULE Spec2Model ----
(***************************************************************************)
(* RedAmon reconnaissance controller (src/recon/main.py).                  *)
(*                                                                         *)
(* The model follows main() and run_domain_recon(): one run of the         *)
(* pipeline is a sequence of steps, one per phase block of the source, and *)
(* several runs follow each other over the same output file                *)
(* recon_<target>.json, which is how the resume path of main() gets a      *)
(* document to load.                                                       *)
(*                                                                         *)
(* Python values: a dict is a record (function), the empty dict and the    *)
(* empty list are <<>>, a missing key of the document is <<>> too.  A host *)
(* name is the sequence of its labels ("www.example.com" is                *)
(* <<"www", "example", "com">>), so that tldextract and the f-string of    *)
(* parse_target are computed and not assumed.                              *)
(***************************************************************************)
EXTENDS Integers, Sequences, FiniteSets, TLC

VARIABLES
    TARGET_DOMAIN,                  \* params.TARGET_DOMAIN
    USE_TOR_FOR_RECON,              \* params.USE_TOR_FOR_RECON
    USE_BRUTEFORCE_FOR_SUBDOMAINS,  \* params.USE_BRUTEFORCE_FOR_SUBDOMAINS
    SCAN_MODULES,                   \* params.SCAN_MODULES of the current run
    GITHUB_ACCESS_TOKEN,            \* params.GITHUB_ACCESS_TOKEN
    pc,                \* position of the current run in main()
    target_info,       \* main.py:343, the result of parse_target(TARGET_DOMAIN)
    resumed,           \* TRUE in the else branch of main.py:374 (file loaded)
    domain_result,     \* the in-memory document (combined_result / domain_result)
    output_file,       \* contents of output/recon_<target>.json, NoFile if absent
    github_findings,   \* main.py:422
    runs,              \* number of runs started; also the clock of datetime.now()
    invoked,           \* collaborators called in this run, in call order
    writes,            \* documents the controller wrote in this run, in order
    failed,            \* the collaborator whose exception ended this run, or "none"
    caught,            \* the collaborators whose exception this run caught
    loaded,            \* the document json.load returned in this run, or NoDoc
    file_at_start,     \* output_file when this run started
    prev_failed,       \* `failed` of the previous run
    calls,             \* collaborator calls the runs begun so far could make
    failures           \* collaborator calls that raised so far, over all runs

params == <<TARGET_DOMAIN, USE_TOR_FOR_RECON, USE_BRUTEFORCE_FOR_SUBDOMAINS,
            SCAN_MODULES, GITHUB_ACCESS_TOKEN>>
history == <<runs, invoked, writes, failed, caught, loaded, file_at_start,
             prev_failed,
             calls, failures>>
vars == <<params, pc, target_info, resumed, domain_result, output_file, github_findings, history>>

----------------------------------------------------------------------------
(* Bounds of the model *)

\* number of consecutive runs of main() over the same output directory
MaxRuns == 2

\* number of collaborator calls the configurations of the runs of one
\* behaviour enable in total: a run is begun only if the calls its
\* configuration can make still fit
MaxCalls == 6

\* number of collaborator calls that raise an exception, over all runs
MaxFailures == 1

----------------------------------------------------------------------------
(* Values *)

NoFile == <<>>
NoDoc == <<>>
EmptyDict == <<>>

\* params.py as the runs find it, besides SCAN_MODULES: a root domain and a
\* subdomain of it as target, the flags off and on, the token empty and set
Deployments ==
    { [ target |-> <<"example", "com">>,
        tor |-> FALSE, bruteforce |-> TRUE,  token |-> "ghp_token" ],
      [ target |-> <<"www", "example", "com">>,
        tor |-> FALSE, bruteforce |-> FALSE, token |-> "" ],
      [ target |-> <<"www", "example", "com">>,
        tor |-> TRUE,  bruteforce |-> TRUE,  token |-> "ghp_token" ] }

\* the module identifiers main() and build_scan_type() test for, in pipeline order
ModuleOrder == <<"domain_discovery", "port_scan", "http_probe", "vuln_scan",
                 "add_mitre", "github">>
ModuleIds == { ModuleOrder[i] : i \in 1..Len(ModuleOrder) }

\* the phase blocks with vuln_scan placed before http_probe
PostPhasesSwapped == <<"port_scan", "vuln_scan", "http_probe", "add_mitre">>

\* the four phase blocks after discovery, in source order
PostPhases == <<"port_scan", "http_probe", "vuln_scan", "add_mitre">>
PostIds == { PostPhases[i] : i \in 1..Len(PostPhases) }

Range(s) == { s[i] : i \in 1..Len(s) }

----------------------------------------------------------------------------
(* parse_target and build_scan_type *)

\* the public-suffix list tldextract decomposes a name with
PublicSuffixes == { <<"com">> }

\* tldextract.extract(target): subdomain labels, registrable label, suffix labels
tldextract_extract(target) ==
    LET n == Len(target)
        k == IF n >= 1 /\ SubSeq(target, n, n) \in PublicSuffixes THEN 1 ELSE 0
    IN  [ subdomain |-> IF n - k >= 2 THEN SubSeq(target, 1, n - k - 1) ELSE <<>>,
          domain    |-> IF n - k >= 1 THEN <<target[n - k]>> ELSE <<>>,
          suffix    |-> SubSeq(target, n - k + 1, n) ]

\* f"{extracted.domain}.{extracted.suffix}": the two parts joined by one dot;
\* an empty part is the empty label ""
DotJoin(domain, suffix) ==
    (IF domain = <<>> THEN <<"">> ELSE domain) \o
    (IF suffix = <<>> THEN <<"">> ELSE suffix)

\* parse_target deciding the mode by the number of labels of the target
parse_targetByLabelCount(target) ==
    LET extracted == tldextract_extract(target)
    IN  [ target         |-> target,
          root_domain    |-> DotJoin(extracted.domain, extracted.suffix),
          is_subdomain   |-> Len(target) > 2,
          subdomain_part |-> extracted.subdomain ]

parse_target(target) ==
    LET extracted == tldextract_extract(target)
    IN  [ target         |-> target,
          root_domain    |-> DotJoin(extracted.domain, extracted.suffix),
          is_subdomain   |-> extracted.subdomain # <<>>,
          subdomain_part |-> extracted.subdomain ]

\* the modules of `order` (from position i on) that are in scan_modules
RECURSIVE EnabledFrom(_, _, _)
EnabledFrom(order, i, scan_modules) ==
    IF i > Len(order) THEN <<>>
    ELSE (IF order[i] \in scan_modules THEN <<order[i]>> ELSE <<>>)
         \o EnabledFrom(order, i + 1, scan_modules)

\* "_".join(modules) if modules else "custom"; the joined string is kept as the
\* sequence of its parts
build_scan_type(scan_modules) ==
    LET modules == EnabledFrom(ModuleOrder, 1, scan_modules)
    IN  IF modules # <<>> THEN modules ELSE <<"custom">>

----------------------------------------------------------------------------
(* The output file: json.dump / json.load *)

JsonBool(b) == IF b THEN "true" ELSE "false"

\* PyBool as the truth value of the text: every non-empty text is true
PyBoolOfText(t) == t # ""

PyBool(t) == t = "true"

\* json.dump(data, f, indent=2): the text of the file.  Python's True/False are
\* written as the JSON literals true/false; strings, numbers, lists and dicts
\* keep their shape and, for lists, their order.
json_dump(data) ==
    [ data EXCEPT
        !.metadata.is_subdomain_mode = JsonBool(@),
        !.metadata.anonymous_mode    = JsonBool(@),
        !.metadata.bruteforce_mode   = JsonBool(@) ]

\* json.load(f)
json_load(text) ==
    [ text EXCEPT
        !.metadata.is_subdomain_mode = PyBool(@),
        !.metadata.anonymous_mode    = PyBool(@),
        !.metadata.bruteforce_mode   = PyBool(@) ]

\* save_recon_file(data, output_file): the new contents of the file
save_recon_file(data) == json_dump(data)

\* output_file.exists()
exists(file) == file # NoFile

----------------------------------------------------------------------------
(* The document *)

\* NewDocument with bruteforce_mode as requested, whatever the mode
NewDocumentAsRequested(target, info, anonymous, bruteforce, scan_modules, now) ==
    [ metadata |->
        [ scan_type         |-> build_scan_type(scan_modules),
          scan_timestamp    |-> now,
          target            |-> target,
          root_domain       |-> info.root_domain,
          is_subdomain_mode |-> info.is_subdomain,
          anonymous_mode    |-> anonymous,
          bruteforce_mode   |-> bruteforce,
          modules_executed  |-> <<>>,
          mitre_enrichment  |-> <<>> ],
      domain          |-> target,
      whois           |-> EmptyDict,
      subdomains      |-> <<>>,
      subdomain_count |-> 0,
      dns             |-> EmptyDict,
      port_scan       |-> <<>>,
      http_probe      |-> <<>>,
      vuln_scan       |-> <<>> ]

\* combined_result as initialised by run_domain_recon; `info` is its
\* parameter target_info
NewDocument(target, info, anonymous, bruteforce, scan_modules, now) ==
    [ metadata |->
        [ scan_type         |-> build_scan_type(scan_modules),
          scan_timestamp    |-> now,
          target            |-> target,
          root_domain       |-> info.root_domain,
          is_subdomain_mode |-> info.is_subdomain,
          anonymous_mode    |-> anonymous,
          bruteforce_mode   |-> IF ~info.is_subdomain THEN bruteforce ELSE FALSE,
          modules_executed  |-> <<>>,
          mitre_enrichment  |-> <<>> ],
      domain          |-> target,
      whois           |-> EmptyDict,
      subdomains      |-> <<>>,
      subdomain_count |-> 0,
      dns             |-> EmptyDict,
      port_scan       |-> <<>>,
      http_probe      |-> <<>>,
      vuln_scan       |-> <<>> ]

modules_executed(doc) == doc.metadata.modules_executed

\* data["metadata"]["modules_executed"].append(module)
AppendExecuted(doc, module) ==
    [ doc EXCEPT !.metadata.modules_executed = Append(@, module) ]

\* AppendExecutedIfAbsent with the test inverted
AppendExecutedIfPresent(doc, module) ==
    IF module \notin Range(modules_executed(doc)) THEN doc
    ELSE AppendExecuted(doc, module)

\* AppendExecutedIfAbsent moving a recorded module to the end of the list
AppendExecutedMovedLast(doc, module) ==
    [ doc EXCEPT !.metadata.modules_executed =
        Append(SelectSeq(@, LAMBDA m : m # module), module) ]

\* if module not in data["metadata"]["modules_executed"]: ....append(module)
AppendExecutedIfAbsent(doc, module) ==
    IF module \in Range(modules_executed(doc)) THEN doc
    ELSE AppendExecuted(doc, module)

----------------------------------------------------------------------------
(* The collaborators, by their contracts *)

\* whois_lookup(root_domain, save_output=False), when it returns
whois_lookup(root_domain) ==
    [ whois_data |-> [ domain_name |-> root_domain, registrar |-> "Example Registrar" ] ]

\* str(e) of the exception whois_lookup raises
WhoisError == "whois timed out"

\* discover_subdomains(target, anonymous, bruteforce, resolve=True, save_output=False)
discover_subdomains(target, anonymous, bruteforce) ==
    LET www == <<"www">> \o target
    IN  [ subdomains      |-> <<www>>,
          subdomain_count |-> 1,
          dns |-> [ domain     |-> [ ips |-> [ ipv4 |-> <<"192.0.2.1">>, ipv6 |-> <<>> ] ],
                    subdomains |-> (www :> [ ips |-> [ ipv4 |-> <<"192.0.2.2">>,
                                                        ipv6 |-> <<>> ] ]) ] ]

\* dns_lookup(target)
dns_lookup(target) == [ ips |-> [ ipv4 |-> <<"192.0.2.3">>, ipv6 |-> <<>> ] ]

\* run_port_scan / run_http_probe / run_vuln_scan / run_mitre_enrichment
\* (document, output_file=...) -> document': the phase's section is added or
\* replaced, the rest of the document is returned as it was given
RunPhase(phase, doc, now) ==
    CASE phase = "port_scan" ->
           [ doc EXCEPT !.port_scan =
               [ scan_timestamp |-> now,
                 summary |-> [ total_open_ports |-> 2, hosts_with_open_ports |-> 1 ] ] ]
      [] phase = "http_probe" ->
           [ doc EXCEPT !.http_probe =
               [ scan_timestamp |-> now,
                 summary |-> [ live_urls |-> 1, technology_count |-> 1 ] ] ]
      [] phase = "vuln_scan" ->
           [ doc EXCEPT !.vuln_scan =
               [ scan_timestamp |-> now,
                 summary |-> [ total_findings |-> 1, critical |-> 0, high |-> 1 ],
                 vulnerabilities |-> [ total |-> 1 ] ] ]
      [] phase = "add_mitre" ->
           [ doc EXCEPT !.metadata.mitre_enrichment =
               [ enrichment_timestamp |-> now,
                 total_cves_enriched |-> 1, total_cves_processed |-> 1 ] ]

\* the function main.py calls for a phase block
CollaboratorOf(phase) ==
    CASE phase = "port_scan"  -> "run_port_scan"
      [] phase = "http_probe" -> "run_http_probe"
      [] phase = "vuln_scan"  -> "run_vuln_scan"
      [] phase = "add_mitre"  -> "run_mitre_enrichment"

\* params.GITHUB_TARGET_ORG
GITHUB_TARGET_ORG == "example-org"

\* GitHubSecretHunter(token, target).run()
GitHubSecretHunter_run(token, org) == << [ repo |-> org, secret |-> "aws_key" ] >>

----------------------------------------------------------------------------
(* The steps of run_domain_recon and main on the document *)

\* WhoisStep with the append inside the try block: a failed lookup is not
\* recorded
WhoisStepAppendInTry(doc, root_domain, raised) ==
    IF raised
    THEN [ doc EXCEPT !.whois = [ error |-> WhoisError ] ]
    ELSE AppendExecuted([ doc EXCEPT !.whois = whois_lookup(root_domain).whois_data ],
                        "whois")

\* main.py:169-177: the try/except around whois_lookup and the append
WhoisStep(doc, root_domain, raised) ==
    LET merged == IF raised
                  THEN [ doc EXCEPT !.whois = [ error |-> WhoisError ] ]
                  ELSE [ doc EXCEPT !.whois = whois_lookup(root_domain).whois_data ]
    IN  AppendExecuted(merged, "whois")

\* DiscoverySingleSaves recording what the full domain mode records
DiscoverySingleSavesAsFull(doc, target, subdomain_dns) ==
    LET merged == [ doc EXCEPT
                      !.subdomains = <<target>>,
                      !.subdomain_count = 1,
                      !.dns = [ domain |-> EmptyDict,
                                subdomains |-> (target :> subdomain_dns) ] ]
    IN  << AppendExecuted(AppendExecuted(merged, "subdomain_discovery"),
                          "dns_resolution") >>

\* main.py:192-209, 232: subdomain mode; the one document saved
DiscoverySingleSaves(doc, target, subdomain_dns) ==
    LET merged == [ doc EXCEPT
                      !.subdomains = <<target>>,
                      !.subdomain_count = 1,
                      !.dns = [ domain |-> EmptyDict,
                                subdomains |-> (target :> subdomain_dns) ] ]
    IN  << AppendExecuted(merged, "dns_resolution") >>

\* DiscoveryFullSaves without the save at line 225
DiscoveryFullSavesOnce(doc, recon_result) ==
    << AppendExecuted(
         AppendExecuted(
           [ doc EXCEPT !.subdomains = recon_result.subdomains,
                        !.subdomain_count = recon_result.subdomain_count,
                        !.dns = recon_result.dns ],
           "subdomain_discovery"),
         "dns_resolution") >>

\* main.py:214-232: full domain mode; the documents saved at line 225 and at
\* line 232, in this order
DiscoveryFullSaves(doc, recon_result) ==
    LET first  == AppendExecuted(
                    [ doc EXCEPT !.subdomains = recon_result.subdomains,
                                 !.subdomain_count = recon_result.subdomain_count ],
                    "subdomain_discovery")
        second == AppendExecuted([ first EXCEPT !.dns = recon_result.dns ],
                                 "dns_resolution")
    IN  << first, second >>

\* FreshPhaseResult without the append
FreshPhaseResultNoAppend(phase, doc, now) == RunPhase(phase, doc, now)

\* main.py:237-238 (and 243-244, 249-250, 255-256): a phase block of
\* run_domain_recon, once the collaborator has returned
FreshPhaseResult(phase, doc, now) ==
    AppendExecuted(RunPhase(phase, doc, now), phase)

\* ResumePhaseResult without the append
ResumePhaseResultNoAppend(phase, doc, now) == RunPhase(phase, doc, now)

\* ResumePhaseResult with the append of the fresh path: no membership test
ResumePhaseResultAlwaysAppend(phase, doc, now) ==
    AppendExecuted(RunPhase(phase, doc, now), phase)

\* ResumePhaseResult bringing metadata.scan_type up to the modules of this run
ResumePhaseResultNewScanType(phase, doc, now) ==
    [ AppendExecutedIfAbsent(RunPhase(phase, doc, now), phase)
        EXCEPT !.metadata.scan_type = build_scan_type(SCAN_MODULES) ]

\* main.py:387-390 (and 396-399, 405-408, 414-417): a phase block of the
\* resume branch of main, once the collaborator has returned
ResumePhaseResult(phase, doc, now) ==
    AppendExecutedIfAbsent(RunPhase(phase, doc, now), phase)

\* NextBlock with the test of the http_probe block copied from the port_scan
\* block: `if "port_scan" in SCAN_MODULES` guards both
NextBlockCopiedTest(i, scan_modules) ==
    LET tested(j) == IF PostPhases[j] = "http_probe" THEN "port_scan"
                     ELSE PostPhases[j]
        hits == { j \in i..Len(PostPhases) : tested(j) \in scan_modules }
    IN  IF hits = {}
        THEN (IF "github" \in scan_modules THEN "github" ELSE "done")
        ELSE PostPhases[CHOOSE j \in hits : \A k \in hits : j <= k]

\* the `if "<phase>" in SCAN_MODULES` tests of the phase blocks from block i on,
\* then main.py:423: the first block that is entered
RECURSIVE NextBlock(_, _)
NextBlock(i, scan_modules) ==
    IF i > Len(PostPhases)
    THEN (IF "github" \in scan_modules THEN "github" ELSE "done")
    ELSE IF PostPhases[i] \in scan_modules THEN PostPhases[i]
         ELSE NextBlock(i + 1, scan_modules)

BlockIndex(phase) == CHOOSE i \in 1..Len(PostPhases) : PostPhases[i] = phase

----------------------------------------------------------------------------
(* The runs *)

Ended == { "done", "aborted", "no_file" }

Init ==
    /\ \E choice \in Deployments :
          /\ TARGET_DOMAIN = choice.target
          /\ USE_TOR_FOR_RECON = choice.tor
          /\ USE_BRUTEFORCE_FOR_SUBDOMAINS = choice.bruteforce
          /\ GITHUB_ACCESS_TOKEN = choice.token
    /\ SCAN_MODULES = {}
    /\ pc = "start"
    /\ target_info = <<>>
    /\ resumed = FALSE
    /\ domain_result = NoDoc
    /\ output_file = NoFile
    /\ github_findings = <<>>
    /\ runs = 0
    /\ invoked = <<>>
    /\ writes = <<>>
    /\ failed = "none"
    /\ caught = {}
    /\ loaded = NoDoc
    /\ file_at_start = NoFile
    /\ prev_failed = "none"
    /\ calls = 0
    /\ failures = 0

\* the collaborators a run with this configuration calls if none raises (with
\* an empty token the GitHub hunter is counted, though not called)
CallsOf(scan_modules) ==
    (IF "domain_discovery" \in scan_modules THEN 2 ELSE 0)
    + Cardinality(scan_modules \cap (PostIds \cup {"github"}))

\* a run of main() begins, with SCAN_MODULES as the caller has set it in
\* params.py; the other values of params.py stay as they are
Begin(scan_modules) ==
    /\ pc \in Ended \cup {"start"}
    /\ runs < MaxRuns
    /\ calls + CallsOf(scan_modules) <= MaxCalls
    /\ calls' = calls + CallsOf(scan_modules)
    /\ runs' = runs + 1
    /\ target_info' = parse_target(TARGET_DOMAIN)
    /\ SCAN_MODULES' = scan_modules
    /\ UNCHANGED <<TARGET_DOMAIN, USE_TOR_FOR_RECON, USE_BRUTEFORCE_FOR_SUBDOMAINS,
                   GITHUB_ACCESS_TOKEN>>
    /\ invoked' = <<>>
    /\ writes' = <<>>
    /\ failed' = "none"
    /\ caught' = {}
    /\ prev_failed' = failed
    /\ file_at_start' = output_file
    /\ github_findings' = <<>>
    /\ UNCHANGED <<output_file, failures>>

\* MainFresh going on from the document in the output file when there is one
MainFreshFromFile ==
    \E scan_modules \in SUBSET ModuleIds :
        /\ "domain_discovery" \in scan_modules
        /\ Begin(scan_modules)
        /\ resumed' = FALSE
        /\ loaded' = NoDoc
        /\ domain_result' =
              IF exists(output_file) THEN json_load(output_file)
              ELSE NewDocument(TARGET_DOMAIN, target_info', USE_TOR_FOR_RECON,
                               USE_BRUTEFORCE_FOR_SUBDOMAINS, scan_modules, runs + 1)
        /\ pc' = "whois"

\* main.py:367-373 and 141-162: domain_discovery is enabled, run_domain_recon
\* builds a new document
MainFresh ==
    \E scan_modules \in SUBSET ModuleIds :
        /\ "domain_discovery" \in scan_modules
        /\ Begin(scan_modules)
        /\ resumed' = FALSE
        /\ loaded' = NoDoc
        /\ domain_result' = NewDocument(TARGET_DOMAIN, target_info',
                                        USE_TOR_FOR_RECON,
                                        USE_BRUTEFORCE_FOR_SUBDOMAINS,
                                        scan_modules, runs + 1)
        /\ pc' = "whois"

\* main.py:374-379: domain_discovery is not enabled and the file exists
MainResume ==
    \E scan_modules \in SUBSET ModuleIds :
        /\ "domain_discovery" \notin scan_modules
        /\ exists(output_file)
        /\ Begin(scan_modules)
        /\ resumed' = TRUE
        /\ loaded' = json_load(output_file)
        /\ domain_result' = json_load(output_file)
        /\ pc' = NextBlock(1, scan_modules)

\* MainNoFile without the `return 1`: the run goes on to the phase blocks
MainNoFileFallsThrough ==
    \E scan_modules \in SUBSET ModuleIds :
        /\ "domain_discovery" \notin scan_modules
        /\ ~exists(output_file)
        /\ Begin(scan_modules)
        /\ resumed' = TRUE
        /\ loaded' = NoDoc
        /\ domain_result' = NoDoc
        /\ pc' = NextBlock(1, scan_modules)

\* main.py:380-383: domain_discovery is not enabled and there is no file: return 1
MainNoFile ==
    \E scan_modules \in SUBSET ModuleIds :
        /\ "domain_discovery" \notin scan_modules
        /\ ~exists(output_file)
        /\ Begin(scan_modules)
        /\ resumed' = FALSE
        /\ loaded' = NoDoc
        /\ domain_result' = NoDoc
        /\ pc' = "no_file"

\* Save without the write: the document stays in memory only
SaveSkipped(docs) ==
    /\ writes' = writes
    /\ output_file' = output_file
    /\ domain_result' = docs[Len(docs)]

\* the controller writes the documents `docs` to the output file, in order
Save(docs) ==
    /\ writes' = writes \o docs
    /\ output_file' = save_recon_file(docs[Len(docs)])
    /\ domain_result' = docs[Len(docs)]

\* `collaborator` raises an exception
Raises(collaborator) ==
    /\ failures < MaxFailures
    /\ failures' = failures + 1

\* an exception of `collaborator` leaves main(): nothing more is done
Abort(collaborator) ==
    /\ Raises(collaborator)
    /\ pc' = "aborted"
    /\ failed' = collaborator
    /\ UNCHANGED <<domain_result, output_file, writes>>

\* DiscoveryFailure with the call in a try block like the one of whois_lookup:
\* the run goes on to the phase blocks
DiscoveryFailureCaught(collaborator) ==
    /\ Raises(collaborator)
    /\ failed' = collaborator
    /\ pc' = NextBlock(1, SCAN_MODULES)
    /\ UNCHANGED <<domain_result, output_file, writes>>

\* main.py:192 and 214: the discovery collaborator raises; the call is in no
\* try block
DiscoveryFailure(collaborator) == Abort(collaborator)

\* PhaseFailure with the call in a try block: the run goes on to the next block
PhaseFailureCaught(phase) ==
    /\ Raises(CollaboratorOf(phase))
    /\ failed' = CollaboratorOf(phase)
    /\ pc' = NextBlock(BlockIndex(phase) + 1, SCAN_MODULES)
    /\ UNCHANGED <<domain_result, output_file, writes>>

\* main.py:237, 243, 249, 255 and 387, 396, 405, 414: the collaborator of a
\* phase block raises; the call is in no try block
PhaseFailure(phase) == Abort(CollaboratorOf(phase))

\* `collaborator` is called
Call(collaborator) == invoked' = Append(invoked, collaborator)

\* main.py:164-179: WHOIS
Whois ==
    /\ pc = "whois"
    /\ Call("whois_lookup")
    /\ \E raised \in BOOLEAN :
          /\ IF raised THEN Raises("whois_lookup") ELSE UNCHANGED failures
          /\ caught' = IF raised THEN caught \cup {"whois_lookup"} ELSE caught
          /\ Save(<< WhoisStep(domain_result, domain_result.metadata.root_domain,
                               raised) >>)
    /\ pc' = "discovery"
    /\ UNCHANGED <<params, target_info, resumed, github_findings, runs, failed,
                   loaded, file_at_start, prev_failed, calls>>

\* main.py:182-209, 232: discovery in subdomain mode
DiscoverySingle ==
    /\ pc = "discovery"
    /\ domain_result.metadata.is_subdomain_mode
    /\ Call("dns_lookup")
    /\ \/ /\ Save(DiscoverySingleSaves(domain_result, TARGET_DOMAIN,
                                       dns_lookup(TARGET_DOMAIN)))
          /\ pc' = NextBlock(1, SCAN_MODULES)
          /\ UNCHANGED <<failed, failures>>
       \/ DiscoveryFailure("dns_lookup")
    /\ UNCHANGED <<params, target_info, resumed, github_findings, runs, caught,
                   loaded, file_at_start, prev_failed, calls>>

\* main.py:210-233: discovery in full domain mode
DiscoveryFull ==
    /\ pc = "discovery"
    /\ ~domain_result.metadata.is_subdomain_mode
    /\ Call("discover_subdomains")
    /\ \/ /\ Save(DiscoveryFullSaves(domain_result,
                     discover_subdomains(TARGET_DOMAIN, USE_TOR_FOR_RECON,
                                         USE_BRUTEFORCE_FOR_SUBDOMAINS)))
          /\ pc' = NextBlock(1, SCAN_MODULES)
          /\ UNCHANGED <<failed, failures>>
       \/ DiscoveryFailure("discover_subdomains")
    /\ UNCHANGED <<params, target_info, resumed, github_findings, runs, caught,
                   loaded, file_at_start, prev_failed, calls>>

\* main.py:235-257: a phase block of run_domain_recon
FreshPhase(phase) ==
    /\ pc = phase
    /\ ~resumed
    /\ phase \in SCAN_MODULES
    /\ Call(CollaboratorOf(phase))
    /\ \/ /\ Save(<< FreshPhaseResult(phase, domain_result, runs) >>)
          /\ pc' = NextBlock(BlockIndex(phase) + 1, SCAN_MODULES)
          /\ UNCHANGED <<failed, failures>>
       \/ PhaseFailure(phase)
    /\ UNCHANGED <<params, target_info, resumed, github_findings, runs, caught,
                   loaded, file_at_start, prev_failed, calls>>

\* main.py:385-419: a phase block of the resume branch of main
ResumePhase(phase) ==
    /\ pc = phase
    /\ resumed
    /\ phase \in SCAN_MODULES
    /\ Call(CollaboratorOf(phase))
    /\ \/ /\ Save(<< ResumePhaseResult(phase, domain_result, runs) >>)
          /\ pc' = NextBlock(BlockIndex(phase) + 1, SCAN_MODULES)
          /\ UNCHANGED <<failed, failures>>
       \/ PhaseFailure(phase)
    /\ UNCHANGED <<params, target_info, resumed, github_findings, runs, caught,
                   loaded, file_at_start, prev_failed, calls>>

\* Github keeping its findings in the recon document and writing it
GithubInDocument ==
    /\ pc = "github"
    /\ "github" \in SCAN_MODULES
    /\ \/ /\ GITHUB_ACCESS_TOKEN = ""
          /\ github_findings' = <<>>
          /\ pc' = "done"
          /\ UNCHANGED <<invoked, failed, failures, domain_result, output_file, writes>>
       \/ /\ GITHUB_ACCESS_TOKEN # ""
          /\ Call("GitHubSecretHunter")
          /\ \/ /\ github_findings' =
                     GitHubSecretHunter_run(GITHUB_ACCESS_TOKEN, GITHUB_TARGET_ORG)
                /\ Save(<< AppendExecuted(domain_result, "github") >>)
                /\ pc' = "done"
                /\ UNCHANGED <<failed, failures>>
             \/ /\ Raises("GitHubSecretHunter")
                /\ pc' = "aborted"
                /\ failed' = "GitHubSecretHunter"
                /\ UNCHANGED <<github_findings, domain_result, output_file, writes>>
    /\ UNCHANGED <<params, target_info, resumed, runs,
                   caught, loaded, file_at_start, prev_failed, calls>>

\* Github waiting at the test of the token for as long as the token is empty
GithubWaitsForToken ==
    /\ pc = "github"
    /\ "github" \in SCAN_MODULES
    /\ \/ /\ GITHUB_ACCESS_TOKEN = ""
          /\ github_findings' = <<>>
          /\ pc' = "github"
          /\ UNCHANGED <<invoked, failed, failures>>
       \/ /\ GITHUB_ACCESS_TOKEN # ""
          /\ Call("GitHubSecretHunter")
          /\ \/ /\ github_findings' =
                     GitHubSecretHunter_run(GITHUB_ACCESS_TOKEN, GITHUB_TARGET_ORG)
                /\ pc' = "done"
                /\ UNCHANGED <<failed, failures>>
             \/ /\ Raises("GitHubSecretHunter")
                /\ pc' = "aborted"
                /\ failed' = "GitHubSecretHunter"
                /\ UNCHANGED github_findings
    /\ UNCHANGED <<params, target_info, resumed, domain_result, output_file, runs,
                   writes, caught, loaded, file_at_start, prev_failed, calls>>

\* main.py:421-424 and run_github_recon (296-321), then return 0
Github ==
    /\ pc = "github"
    /\ "github" \in SCAN_MODULES
    /\ \/ /\ GITHUB_ACCESS_TOKEN = ""
          /\ github_findings' = <<>>
          /\ pc' = "done"
          /\ UNCHANGED <<invoked, failed, failures>>
       \/ /\ GITHUB_ACCESS_TOKEN # ""
          /\ Call("GitHubSecretHunter")
          /\ \/ /\ github_findings' =
                     GitHubSecretHunter_run(GITHUB_ACCESS_TOKEN, GITHUB_TARGET_ORG)
                /\ pc' = "done"
                /\ UNCHANGED <<failed, failures>>
             \/ /\ Raises("GitHubSecretHunter")
                /\ pc' = "aborted"
                /\ failed' = "GitHubSecretHunter"
                /\ UNCHANGED github_findings
    /\ UNCHANGED <<params, target_info, resumed, domain_result, output_file, runs,
                   writes, caught, loaded, file_at_start, prev_failed, calls>>

Next ==
    \/ MainFresh
    \/ MainResume
    \/ MainNoFile
    \/ Whois
    \/ DiscoverySingle
    \/ DiscoveryFull
    \/ \E phase \in PostIds : FreshPhase(phase)
    \/ \E phase \in PostIds : ResumePhase(phase)
    \/ Github

Spec == Init /\ [][Next]_vars

\* the steps of a run that has begun: main() is one thread of straight-line
\* code, so a run whose next call returns or raises takes its next step
RunStep ==
    \/ Whois
    \/ DiscoverySingle
    \/ DiscoveryFull
    \/ \E phase \in PostIds : FreshPhase(phase)
    \/ \E phase \in PostIds : ResumePhase(phase)
    \/ Github

\* the runs with every collaborator call returning or raising; whether a
\* further run is begun is left to the caller
FairSpec == Spec /\ WF_vars(RunStep)

----------------------------------------------------------------------------
(* parse_target on its own: main.py:343 for any target *)

\* the most labels a target name has
MaxLabels == 3

\* the labels target names are made of: "com" is a public suffix, "internal"
\* is not
Labels == { "www", "example", "com", "internal" }

\* the target names of up to MaxLabels labels, the empty name included
TargetNames == UNION { [ 1..n -> Labels ] : n \in 0..MaxLabels }

InitParse ==
    /\ TARGET_DOMAIN \in TargetNames
    /\ USE_TOR_FOR_RECON = FALSE
    /\ USE_BRUTEFORCE_FOR_SUBDOMAINS = FALSE
    /\ GITHUB_ACCESS_TOKEN = ""
    /\ SCAN_MODULES = {}
    /\ pc = "start"
    /\ target_info = <<>>
    /\ resumed = FALSE
    /\ domain_result = NoDoc
    /\ output_file \in {NoFile, json_dump(NewDocument(TARGET_DOMAIN,
                           parse_target(TARGET_DOMAIN), FALSE, FALSE, {}, 0))}
    /\ github_findings = <<>>
    /\ runs = 0
    /\ invoked = <<>>
    /\ writes = <<>>
    /\ failed = "none"
    /\ caught = {}
    /\ loaded = NoDoc
    /\ file_at_start = output_file
    /\ prev_failed = "none"
    /\ calls = 0
    /\ failures = 0

\* what parse_target has no access to
OutsideParseTarget ==
    <<params, resumed, domain_result, output_file, github_findings, history>>

\* main.py:343: target_info = parse_target(TARGET_DOMAIN)
ParseTarget ==
    /\ pc = "start"
    /\ target_info' = parse_target(TARGET_DOMAIN)
    /\ pc' = "parsed"
    /\ UNCHANGED OutsideParseTarget

\* parse_target called again, with the target the first call returned
ParseTargetAgain ==
    /\ pc = "parsed"
    /\ target_info' = parse_target(target_info.target)
    /\ pc' = "parsed_again"
    /\ UNCHANGED OutsideParseTarget

NextParse == ParseTarget \/ ParseTargetAgain

SpecParse == InitParse /\ [][NextParse]_vars

----------------------------------------------------------------------------
(* Observations on a run, used by the properties below *)

\* modules_executed of the document this run loaded; none in a fresh run
LoadedModules == IF loaded = NoDoc THEN {} ELSE Range(modules_executed(loaded))

\* the document in the output file
Stored == json_load(output_file)

IsGithubCall(c) == c = "GitHubSecretHunter"
IsDomainCall(c) == ~IsGithubCall(c)

\* the calls of this run to the collaborators of the domain phases
DomainCalls == SelectSeq(invoked, IsDomainCall)

\* the post-discovery phases this run has enabled
EnabledPost == SCAN_MODULES \cap PostIds

\* the phase blocks of this run are behind it, none of them failed
PhasesOver ==
    \/ pc \in {"github", "done"}
    \/ pc = "aborted" /\ failed = "GitHubSecretHunter"

IsPrefix(s, t) == Len(s) <= Len(t) /\ s = SubSeq(t, 1, Len(s))

----------------------------------------------------------------------------
(* C1 *)

\* C1, as stated: on a resumed run, a post-discovery phase has its collaborator
\* invoked if and only if it is enabled and its identifier is not already in the
\* loaded document's modules_executed.
C1_InvokedIffEnabledAndUnrecorded ==
    (resumed /\ PhasesOver) =>
        \A phase \in PostIds :
            (CollaboratorOf(phase) \in Range(invoked))
                <=> (phase \in SCAN_MODULES /\ phase \notin LoadedModules)

\* C1, amended: on a resumed run none of whose phases fails, a post-discovery
\* phase has its collaborator invoked if and only if it is enabled, whether or
\* not the loaded document records it; at no point of a resumed run has the
\* collaborator of a phase that is not enabled been invoked.
C1_InvokedIffEnabled ==
    resumed =>
        /\ \A phase \in PostIds :
              CollaboratorOf(phase) \in Range(invoked) => phase \in SCAN_MODULES
        /\ PhasesOver =>
              \A phase \in PostIds :
                  phase \in SCAN_MODULES => CollaboratorOf(phase) \in Range(invoked)

\* a resumed run has ended after invoking a phase its loaded document records
C1_Witness ==
    /\ resumed
    /\ pc = "done"
    /\ \E phase \in EnabledPost :
          /\ phase \in LoadedModules
          /\ CollaboratorOf(phase) \in Range(invoked)

----------------------------------------------------------------------------
(* C2 *)

\* the collaborators of the enabled post-discovery phases, in pipeline order
C2_Expected ==
    SelectSeq(<<"run_port_scan", "run_http_probe", "run_vuln_scan",
                "run_mitre_enrichment">>,
              LAMBDA c : \E phase \in EnabledPost : c = CollaboratorOf(phase))

\* C2: a run with domain_discovery disabled over a document whose recorded
\* phases are disjoint from the enabled post-discovery phases invokes exactly
\* the collaborators of the enabled phases, each once, in the order port_scan,
\* http_probe, vuln_scan, add_mitre, and no other phase's collaborator.
C2_ExactlyEnabledInOrder ==
    (resumed /\ EnabledPost \cap LoadedModules = {}) =>
        /\ IsPrefix(DomainCalls, C2_Expected)
        /\ PhasesOver => DomainCalls = C2_Expected

\* the scenario of the specification: port_scan recorded, http_probe and
\* vuln_scan enabled, both invoked in this order
C2_Witness ==
    /\ resumed
    /\ pc = "done"
    /\ modules_executed(loaded) =
          <<"whois", "subdomain_discovery", "dns_resolution", "port_scan">>
    /\ SCAN_MODULES = {"http_probe", "vuln_scan"}
    /\ invoked = <<"run_http_probe", "run_vuln_scan">>

----------------------------------------------------------------------------
(* C3 *)

\* C3: a run with domain_discovery disabled and no output file for the target
\* ends with the failure result before any collaborator is invoked, creates no
\* document and leaves the storage as it was.
C3_FatalResume ==
    (runs >= 1 /\ "domain_discovery" \notin SCAN_MODULES /\ ~exists(file_at_start)) =>
        /\ pc = "no_file"
        /\ invoked = <<>>
        /\ writes = <<>>
        /\ domain_result = NoDoc
        /\ output_file = file_at_start

\* a run with phases enabled, discovery disabled and no file has ended
C3_Witness ==
    /\ pc = "no_file"
    /\ SCAN_MODULES = {"port_scan", "github"}
    /\ ~exists(output_file)

----------------------------------------------------------------------------
(* C4 *)

\* C4: in a fresh run whose whois_lookup raised, the whois section is
\* {"error": <message>}, "whois" is recorded, the document with both is the
\* first one written, and the run goes on to the discovery collaborator.
C4_WhoisContained ==
    "whois_lookup" \in caught =>
        /\ domain_result.whois = [ error |-> WhoisError ]
        /\ "whois" \in Range(modules_executed(domain_result))
        /\ failed # "whois_lookup"
        /\ writes # <<>>
        /\ writes[1].whois = [ error |-> WhoisError ]
        /\ modules_executed(writes[1]) = <<"whois">>
        /\ Len(invoked) = 1 => (pc = "discovery" /\ Stored = writes[1])
        /\ Len(invoked) >= 2 => invoked[2] \in {"discover_subdomains", "dns_lookup"}

\* discovery has completed in a run whose whois_lookup raised
C4_Witness ==
    /\ "whois_lookup" \in caught
    /\ Len(invoked) >= 2
    /\ "dns_resolution" \in Range(modules_executed(domain_result))
    /\ Stored.whois = [ error |-> WhoisError ]

----------------------------------------------------------------------------
(* C5 *)

\* C5: when the discovery collaborator of a fresh run raises, the run is
\* aborted at once, no post-discovery collaborator is invoked, and the document
\* in the output file is the one written after WHOIS: modules_executed is
\* ["whois"], subdomains and dns are empty.
C5_DiscoveryFatal ==
    failed \in {"discover_subdomains", "dns_lookup"} =>
        /\ pc = "aborted"
        /\ invoked = <<"whois_lookup", failed>>
        /\ (failed = "dns_lookup") <=> parse_target(TARGET_DOMAIN).is_subdomain
        /\ Len(writes) = 1
        /\ Stored = writes[1]
        /\ modules_executed(Stored) = <<"whois">>
        /\ Stored.subdomains = <<>>
        /\ Stored.subdomain_count = 0
        /\ Stored.dns = EmptyDict

\* a fresh run over an earlier document has been aborted by the discovery
\* collaborator
C5_Witness ==
    /\ failed \in {"discover_subdomains", "dns_lookup"}
    /\ exists(file_at_start)
    /\ EnabledPost # {}

----------------------------------------------------------------------------
(* C6 *)

PostCollaborators == { CollaboratorOf(phase) : phase \in PostIds }

\* the phase whose collaborator ended the run
FailedPhase == CHOOSE phase \in PostIds : CollaboratorOf(phase) = failed

\* what the output file holds after the last write of this run, or, with no
\* write yet, what it held when the run started
LastGood == IF writes = <<>> THEN file_at_start
            ELSE json_dump(writes[Len(writes)])

\* C6, as stated: when the collaborator of a post-discovery phase raises, no
\* later phase is invoked, nothing more is written, the output file holds the
\* document written after the last completed phase, and the failed phase is not
\* in the persisted modules_executed.
C6_FailedPhaseNotPersisted ==
    failed \in PostCollaborators =>
        /\ pc = "aborted"
        /\ invoked[Len(invoked)] = failed
        /\ output_file = LastGood
        /\ FailedPhase \notin Range(modules_executed(Stored))

\* C6, amended: when the collaborator of a post-discovery phase raises, no
\* later phase is invoked, nothing more is written, the output file holds the
\* document written after the last completed phase (the loaded one if none
\* completed), and the failed phase is in the persisted modules_executed only
\* if the document this run loaded had it recorded already.
C6_FailedPhaseNotRecorded ==
    failed \in PostCollaborators =>
        /\ pc = "aborted"
        /\ invoked[Len(invoked)] = failed
        /\ output_file = LastGood
        /\ Stored = domain_result
        /\ FailedPhase \in Range(modules_executed(Stored))
              <=> FailedPhase \in LoadedModules

\* http_probe has failed after port_scan completed, in a fresh run
C6_Witness ==
    /\ failed = "run_http_probe"
    /\ ~resumed
    /\ invoked[Len(invoked) - 1] = "run_port_scan"
    /\ modules_executed(Stored) =
          <<"whois", "subdomain_discovery", "dns_resolution", "port_scan">>

----------------------------------------------------------------------------
(* C7 *)

\* C7: the run after one that post-discovery phase P aborted, started with
\* only P enabled, finds the document, invokes P's collaborator again and no
\* other, and when it returns P is recorded, its section merged and the
\* result written.
C7_RetryAfterAbort ==
    \A phase \in PostIds :
        (prev_failed = CollaboratorOf(phase) /\ SCAN_MODULES = {phase}) =>
            /\ resumed
            /\ pc \in {phase, "done", "aborted"}
            /\ pc = phase => (invoked = <<>> /\ domain_result = json_load(file_at_start))
            /\ pc # phase => invoked = <<CollaboratorOf(phase)>>
            /\ pc = "done" =>
                  /\ phase \in Range(modules_executed(domain_result))
                  /\ domain_result = RunPhase(phase, domain_result, runs)
                  /\ writes = <<domain_result>>
                  /\ Stored = domain_result

\* vuln_scan aborted the previous run and has now been retried and recorded
C7_Witness ==
    /\ prev_failed = "run_vuln_scan"
    /\ SCAN_MODULES = {"vuln_scan"}
    /\ pc = "done"
    /\ "vuln_scan" \notin LoadedModules
    /\ "vuln_scan" \in Range(modules_executed(Stored))

----------------------------------------------------------------------------
(* C8 *)

\* the calls of this run to domain-phase collaborators that did not end the run:
\* the phases that completed
CompletedPhases ==
    Len(DomainCalls) - (IF failed # "none" /\ IsDomainCall(failed) THEN 1 ELSE 0)

\* discover_subdomains was called in this run and returned
FullDiscoveryCompleted ==
    "discover_subdomains" \in Range(invoked) /\ failed # "discover_subdomains"

\* C8, as stated: the controller writes exactly once after each phase that
\* completes, in both modes and on both paths, so the writes of a run are as
\* many as the phases that completed.
C8_OneWritePerPhase ==
    Len(writes) = CompletedPhases

\* C8, amended: the controller writes once after each phase that completes,
\* except after DISCOVERY in root-domain mode, where it writes twice (after
\* subdomain_discovery and after dns_resolution); the writes of a run are as
\* many as the phases that completed, plus one if discover_subdomains
\* completed in it.  Nothing is written by a call that raises: the output file
\* always holds the last document written.
C8_WritesPerPhase ==
    /\ Len(writes) = CompletedPhases + (IF FullDiscoveryCompleted THEN 1 ELSE 0)
    /\ runs >= 1 => output_file = LastGood

\* a fresh root-domain run with two post-discovery phases has ended: four
\* phases, five writes
C8_Witness ==
    /\ pc = "done"
    /\ ~resumed
    /\ ~domain_result.metadata.is_subdomain_mode
    /\ CompletedPhases = 4
    /\ Len(writes) = 5

----------------------------------------------------------------------------
(* C9 *)

HasSection(section) == section # <<>>

\* subdomains and subdomain_count are merged, dns is not, dns_resolution is not
\* recorded
HalfDiscovery(doc) ==
    /\ doc.subdomains # <<>>
    /\ doc.subdomain_count > 0
    /\ doc.dns = EmptyDict
    /\ "dns_resolution" \notin Range(modules_executed(doc))

\* C9, as stated: no document the controller writes holds a half-merged phase;
\* in particular none holds the subdomains of DISCOVERY with an empty dns
\* section and dns_resolution unrecorded.
C9_NoHalfMergedPhase ==
    \A i \in 1..Len(writes) : ~HalfDiscovery(writes[i])

\* every result is in the document exactly when its module identifier is
\* recorded
ModuleConsistent(doc) ==
    LET recorded == Range(modules_executed(doc))
    IN  /\ "whois" \in recorded /\ doc.whois # EmptyDict
        /\ doc.subdomains # <<>> <=>
              (IF doc.metadata.is_subdomain_mode THEN "dns_resolution" \in recorded
               ELSE "subdomain_discovery" \in recorded)
        /\ doc.subdomain_count = Len(doc.subdomains)
        /\ doc.dns # EmptyDict <=> "dns_resolution" \in recorded
        /\ HasSection(doc.port_scan) <=> "port_scan" \in recorded
        /\ HasSection(doc.http_probe) <=> "http_probe" \in recorded
        /\ HasSection(doc.vuln_scan) <=> "vuln_scan" \in recorded
        /\ HasSection(doc.metadata.mitre_enrichment) <=> "add_mitre" \in recorded

\* C9, amended: every document the controller writes is a complete snapshot
\* module by module: a result is merged if and only if its module identifier
\* is recorded in modules_executed.  The DISCOVERY phase of root-domain mode
\* is written in two such steps, so the document written after
\* subdomain_discovery holds subdomains and subdomain_count while dns is empty
\* and dns_resolution is unrecorded; no other written document is half-merged.
C9_WrittenModuleConsistent ==
    \A i \in 1..Len(writes) :
        /\ ModuleConsistent(writes[i])
        /\ HalfDiscovery(writes[i]) =>
              /\ i = 2
              /\ ~resumed
              /\ modules_executed(writes[i]) = <<"whois", "subdomain_discovery">>

\* the document written after subdomain_discovery, and a later one with a
\* phase section, in one run
C9_Witness ==
    /\ Len(writes) >= 4
    /\ HalfDiscovery(writes[2])
    /\ HasSection(writes[4].port_scan)

----------------------------------------------------------------------------
(* C10 *)

\* the module identifiers recorded for a collaborator call that completed
IdsOf(collaborator) ==
    CASE collaborator = "whois_lookup"         -> {"whois"}
      [] collaborator = "discover_subdomains"  -> {"subdomain_discovery", "dns_resolution"}
      [] collaborator = "dns_lookup"           -> {"dns_resolution"}
      [] collaborator = "run_port_scan"        -> {"port_scan"}
      [] collaborator = "run_http_probe"       -> {"http_probe"}
      [] collaborator = "run_vuln_scan"        -> {"vuln_scan"}
      [] collaborator = "run_mitre_enrichment" -> {"add_mitre"}
      [] OTHER                                 -> {}

\* the calls of this run that are over and did not end the run
Completed == { invoked[i] : i \in 1..CompletedPhases }

----------------------------------------------------------------------------
(* C11 *)

NoDuplicates(s) == \A i, j \in 1..Len(s) : s[i] = s[j] => i = j

\* C11: after any sequence of fresh and resumed runs, with any sets of enabled
\* phases (a recorded phase enabled again included), every phase identifier
\* is at most once in modules_executed: in the document in memory, in every
\* document written and in the document in the output file.
C11_AtMostOnce ==
    /\ domain_result # NoDoc => NoDuplicates(modules_executed(domain_result))
    /\ \A i \in 1..Len(writes) : NoDuplicates(modules_executed(writes[i]))
    /\ exists(output_file) => NoDuplicates(modules_executed(Stored))

\* a resumed run has run and written a phase that the loaded document had
\* recorded, next to one it had not
C11_Witness ==
    /\ resumed
    /\ pc = "done"
    /\ SCAN_MODULES = {"port_scan", "http_probe"}
    /\ "port_scan" \in LoadedModules
    /\ "http_probe" \notin LoadedModules
    /\ Len(writes) = 2
    /\ modules_executed(Stored) = Append(modules_executed(loaded), "http_probe")


----------------------------------------------------------------------------
(* C12 *)

\* a document the collaborator of `phase` returns with the identifier of the
\* phase in modules_executed already: the collaborator was given `doc`, which
\* has it recorded
ReturnedRecorded(phase, doc) ==
    /\ doc # NoDoc
    /\ phase \in Range(modules_executed(RunPhase(phase, doc, runs)))

\* C12, as stated: every place where the controller records a completed phase
\* appends idempotently: when the identifier is already in modules_executed
\* of the document the collaborator returned, recording it leaves
\* modules_executed as it is, in the phase blocks of the fresh run
\* (run_domain_recon) as well as in those of the resume branch of main.
C12_IdempotentAppendEverywhere ==
    \A phase \in PostIds :
        ReturnedRecorded(phase, domain_result) =>
            LET returned == RunPhase(phase, domain_result, runs)
            IN  /\ modules_executed(ResumePhaseResult(phase, domain_result, runs))
                      = modules_executed(returned)
                /\ modules_executed(FreshPhaseResult(phase, domain_result, runs))
                      = modules_executed(returned)


----------------------------------------------------------------------------
(* C13 *)

\* what WHOIS and DISCOVERY record, by the mode of the document
DiscoveryModules(doc) ==
    IF doc.metadata.is_subdomain_mode
    THEN <<"whois", "dns_resolution">>
    ELSE <<"whois", "subdomain_discovery", "dns_resolution">>

\* C13: a fresh run in which every collaborator succeeds ends with
\* modules_executed equal to ["whois", "subdomain_discovery", "dns_resolution"]
\* in root-domain mode (["whois", "dns_resolution"] in subdomain mode) followed
\* by exactly the enabled post-discovery phases in the order port_scan,
\* http_probe, vuln_scan, add_mitre; the mode is that of the target, and the
\* document in the output file is this one.
C13_FreshRunModules ==
    (~resumed /\ pc \in {"github", "done"} /\ caught = {}) =>
        /\ modules_executed(domain_result) =
              DiscoveryModules(domain_result)
                 \o SelectSeq(PostPhases, LAMBDA phase : phase \in SCAN_MODULES)
        /\ domain_result.metadata.is_subdomain_mode = (Len(TARGET_DOMAIN) > 2)
        /\ Stored = domain_result

\* scenario A: root target, domain_discovery and port_scan enabled
C13_Witness ==
    /\ ~resumed
    /\ pc = "done"
    /\ caught = {}
    /\ TARGET_DOMAIN = <<"example", "com">>
    /\ SCAN_MODULES = {"domain_discovery", "port_scan"}
    /\ modules_executed(Stored) =
          <<"whois", "subdomain_discovery", "dns_resolution", "port_scan">>
    /\ ~Stored.metadata.is_subdomain_mode


----------------------------------------------------------------------------
(* C14 *)

\* the documents of this run: the one in memory and those written
RunDocuments == {domain_result} \cup Range(writes)

\* C14: in a fresh run in subdomain mode, whether bruteforce is requested or
\* not, every document from the initial one on has metadata.bruteforce_mode
\* false; once the discovery phase has completed, subdomains is [target],
\* subdomain_count is 1 and dns.domain is the empty record; discover_subdomains
\* is never invoked.
C14_SubdomainMode ==
    (~resumed /\ domain_result # NoDoc /\ parse_target(TARGET_DOMAIN).is_subdomain) =>
        /\ "discover_subdomains" \notin Range(invoked)
        /\ \A doc \in RunDocuments :
              /\ doc.metadata.is_subdomain_mode
              /\ doc.metadata.bruteforce_mode = FALSE
              /\ "dns_resolution" \in Range(modules_executed(doc)) =>
                    /\ doc.subdomains = <<TARGET_DOMAIN>>
                    /\ doc.subdomain_count = 1
                    /\ doc.dns.domain = EmptyDict
        /\ ("dns_lookup" \in Range(invoked) /\ failed # "dns_lookup") =>
              /\ "dns_resolution" \in Range(modules_executed(domain_result))
              /\ Stored.metadata.bruteforce_mode = FALSE
              /\ Stored.subdomains = <<TARGET_DOMAIN>>

\* scenario B with bruteforce requested: the discovery phase of a fresh run on
\* the subdomain target has completed
C14_Witness ==
    /\ ~resumed
    /\ TARGET_DOMAIN = <<"www", "example", "com">>
    /\ USE_BRUTEFORCE_FOR_SUBDOMAINS
    /\ invoked = <<"whois_lookup", "dns_lookup">>
    /\ failed = "none"
    /\ Stored.subdomains = << <<"www", "example", "com">> >>
    /\ Stored.dns.domain = EmptyDict


----------------------------------------------------------------------------
(* C15 *)

\* the place of a collaborator in the pipeline
PipelineRank(collaborator) ==
    CASE collaborator = "whois_lookup"                         -> 1
      [] collaborator \in {"discover_subdomains", "dns_lookup"} -> 2
      [] collaborator = "run_port_scan"                        -> 3
      [] collaborator = "run_http_probe"                       -> 4
      [] collaborator = "run_vuln_scan"                        -> 5
      [] collaborator = "run_mitre_enrichment"                 -> 6
      [] collaborator = "GitHubSecretHunter"                   -> 7

\* the run is at a collaborator call that has not been made yet
BeforeCall == pc \in {"discovery", "github"} \cup PostIds

\* C15: phases are strictly sequential.  In every run the collaborators are
\* called one after the other in pipeline order, and whenever the next one is
\* about to be called, every phase executed before it in this run has its
\* result merged into the document and its identifier recorded, and that
\* document is the last one written and the one in the output file.
C15_StrictlySequential ==
    /\ \A i, j \in 1..Len(invoked) :
          i < j => PipelineRank(invoked[i]) < PipelineRank(invoked[j])
    /\ BeforeCall =>
          /\ exists(output_file)
          /\ Stored = domain_result
          /\ writes # <<>> => writes[Len(writes)] = domain_result
          /\ invoked # <<>> => writes # <<>>
          /\ \A c \in Range(invoked) :
                IdsOf(c) \subseteq Range(modules_executed(Stored))
          /\ ModuleConsistent(Stored)

\* http_probe is about to be called after port_scan has been merged, recorded
\* and written
C15_Witness ==
    /\ pc = "http_probe"
    /\ invoked # <<>>
    /\ invoked[Len(invoked)] = "run_port_scan"
    /\ HasSection(Stored.port_scan)
    /\ "port_scan" \in Range(modules_executed(Stored))
    /\ writes[Len(writes)] = domain_result


----------------------------------------------------------------------------
(* C16 *)

\* the document this run wrote last
LastWritten == writes[Len(writes)]

----------------------------------------------------------------------------
(* C17 *)

----------------------------------------------------------------------------
(* C18 *)

\* the document has none of the results of the phases after WHOIS
OnlyWhois(doc) ==
    /\ modules_executed(doc) = <<"whois">>
    /\ doc.subdomains = <<>>
    /\ doc.subdomain_count = 0
    /\ doc.dns = EmptyDict
    /\ ~HasSection(doc.port_scan)
    /\ ~HasSection(doc.http_probe)
    /\ ~HasSection(doc.vuln_scan)
    /\ ~HasSection(doc.metadata.mitre_enrichment)

\* C18: a run with domain_discovery enabled never resumes.  Whatever document
\* the output file holds, the run loads nothing, calls whois_lookup and then
\* the discovery collaborator, and its first write puts in the file a new
\* document of this run whose modules_executed is ["whois"] and which has
\* none of the sections of the earlier document; the enabled post-discovery
\* phases are then invoked, recorded in the earlier document or not.
C18_FreshNeverResumes ==
    (runs >= 1 /\ "domain_discovery" \in SCAN_MODULES) =>
        /\ ~resumed
        /\ loaded = NoDoc
        /\ pc # "no_file"
        /\ pc = "whois" => (invoked = <<>> /\ modules_executed(domain_result) = <<>>)
        /\ pc # "whois" =>
              /\ invoked[1] = "whois_lookup"
              /\ OnlyWhois(writes[1])
              /\ writes[1].metadata.scan_timestamp = runs
              /\ writes[1].metadata.scan_type = build_scan_type(SCAN_MODULES)
        /\ pc = "discovery" => output_file = json_dump(writes[1])
        /\ pc \notin {"whois", "discovery"} =>
              invoked[2] \in {"discover_subdomains", "dns_lookup"}
        /\ PhasesOver =>
              \A phase \in EnabledPost : CollaboratorOf(phase) \in Range(invoked)

\* a fresh run over a document with port_scan recorded has written its WHOIS
\* snapshot first and has run port_scan again
C18_Witness ==
    /\ ~resumed
    /\ pc = "done"
    /\ exists(file_at_start)
    /\ "port_scan" \in Range(modules_executed(json_load(file_at_start)))
    /\ HasSection(json_load(file_at_start).port_scan)
    /\ OnlyWhois(writes[1])
    /\ "run_port_scan" \in Range(invoked)
    /\ Stored.port_scan.scan_timestamp = 2


----------------------------------------------------------------------------
(* C19 *)

\* C19: within one run, fresh or resumed, modules_executed only grows at its
\* end: of two consecutive writes of the controller, modules_executed of the
\* earlier is a prefix of that of the later, and in a resumed run
\* modules_executed of the loaded document is a prefix of that of every
\* written one and of the one in memory (with collaborators that leave
\* modules_executed as they were given it).
C19_AppendOnly ==
    /\ \A i \in 1..(Len(writes) - 1) :
          IsPrefix(modules_executed(writes[i]), modules_executed(writes[i + 1]))
    /\ resumed =>
          /\ \A i \in 1..Len(writes) :
                IsPrefix(modules_executed(loaded), modules_executed(writes[i]))
          /\ IsPrefix(modules_executed(loaded), modules_executed(domain_result))
          /\ IsPrefix(modules_executed(loaded), modules_executed(Stored))

\* a resumed run has written twice: after a phase the loaded document had
\* recorded, which left modules_executed as loaded, and after one it had not
C19_Witness ==
    /\ resumed
    /\ Len(writes) = 2
    /\ invoked[1] = "run_port_scan"
    /\ "port_scan" \in LoadedModules
    /\ modules_executed(writes[1]) = modules_executed(loaded)
    /\ Len(modules_executed(writes[2])) = Len(modules_executed(loaded)) + 1


----------------------------------------------------------------------------
(* C20 *)

\* the calls to domain-phase collaborators of a run none of whose phases fails
AllDomainCalls ==
    (IF resumed THEN <<>>
     ELSE <<"whois_lookup",
            IF target_info.is_subdomain THEN "dns_lookup" ELSE "discover_subdomains">>)
    \o C2_Expected

\* the hunter is called last, with a token, when github is enabled and every
\* domain phase of the run is over; a run that found no file calls nothing
GithubAfterDomainPhases ==
    /\ "GitHubSecretHunter" \in Range(invoked) =>
          /\ invoked = Append(AllDomainCalls, "GitHubSecretHunter")
          /\ "github" \in SCAN_MODULES
          /\ GITHUB_ACCESS_TOKEN # ""
          /\ pc \in {"done", "aborted"}
    /\ github_findings # <<>> => "GitHubSecretHunter" \in Range(invoked)
    /\ pc = "no_file" => (invoked = <<>> /\ github_findings = <<>>)

\* C20: the GitHub secret hunt is outside the recon document.  It runs only
\* after all domain phases of the run are over; its step leaves the document
\* in memory (modules_executed with it) and the output file as they are and
\* writes nothing; it is never invoked by a run that ends for want of an
\* output file; with an empty token the findings are the empty list and the
\* hunter is not called.
C20_GithubOutsideDocument ==
    [][ /\ GithubAfterDomainPhases'
        /\ pc = "github" =>
              /\ invoked = AllDomainCalls
              /\ UNCHANGED <<domain_result, output_file, writes>>
              /\ GITHUB_ACCESS_TOKEN = "" =>
                    /\ github_findings' = <<>>
                    /\ invoked' = invoked
                    /\ pc' = "done" ]_vars

\* the hunter has returned findings at the end of a resumed run that ran a
\* phase: the document and the file are those of the phase
C20_Witness ==
    /\ pc = "done"
    /\ resumed
    /\ github_findings # <<>>
    /\ invoked = <<"run_port_scan", "GitHubSecretHunter">>
    /\ writes = <<domain_result>>
    /\ Stored = domain_result
    /\ "github" \notin Range(modules_executed(Stored))


----------------------------------------------------------------------------
(* C21 *)

\* a run has begun and not ended
Running == pc \notin Ended \cup {"start"}

\* the place of a position of main() in the run
PcRank(position) ==
    CASE position = "whois"      -> 1
      [] position = "discovery"  -> 2
      [] position = "port_scan"  -> 3
      [] position = "http_probe" -> 4
      [] position = "vuln_scan"  -> 5
      [] position = "add_mitre"  -> 6
      [] position = "github"     -> 7
      [] OTHER                   -> 8

\* no collaborator is called twice in a run, and discover_subdomains and
\* dns_lookup are not both called
EachCalledAtMostOnce ==
    /\ NoDuplicates(invoked)
    /\ ~({"discover_subdomains", "dns_lookup"} \subseteq Range(invoked))
    /\ Len(invoked) <= 7

\* C21: with every collaborator call returning or raising, every run ends,
\* completed or aborted by a fatal error; within one run each phase
\* collaborator (WHOIS, discovery, port_scan, http_probe, vuln_scan, add_mitre,
\* github) is called at most once, and every step of a run goes on to a later
\* position of the pipeline: there is no retry and no way back.
C21_TerminatesNoRetry ==
    /\ []EachCalledAtMostOnce
    /\ [][ Running => PcRank(pc') > PcRank(pc) ]_vars
    /\ Running ~> (pc \in Ended)

\* a fresh run with every phase but add_mitre enabled has completed, each of
\* its six collaborators called once
C21_Witness ==
    /\ pc = "done"
    /\ SCAN_MODULES = ModuleIds \ {"add_mitre"}
    /\ Len(invoked) = 6
    /\ NoDuplicates(invoked)
    /\ invoked[6] = "GitHubSecretHunter"


----------------------------------------------------------------------------
(* C22 *)

\* `doc` with modules_executed and what the phase collaborators return (the
\* sections port_scan, http_probe, vuln_scan and metadata.mitre_enrichment)
\* taken from `from`
WithPhaseResultsOf(doc, from) ==
    [ doc EXCEPT !.metadata.modules_executed = from.metadata.modules_executed,
                 !.metadata.mitre_enrichment = from.metadata.mitre_enrichment,
                 !.port_scan  = from.port_scan,
                 !.http_probe = from.http_probe,
                 !.vuln_scan  = from.vuln_scan ]

\* the values of `doc` that C22 names are those of the loaded document
KeepsLoaded(doc) ==
    /\ doc.metadata.scan_type         = loaded.metadata.scan_type
    /\ doc.metadata.scan_timestamp    = loaded.metadata.scan_timestamp
    /\ doc.metadata.target            = loaded.metadata.target
    /\ doc.metadata.root_domain       = loaded.metadata.root_domain
    /\ doc.metadata.is_subdomain_mode = loaded.metadata.is_subdomain_mode
    /\ doc.metadata.anonymous_mode    = loaded.metadata.anonymous_mode
    /\ doc.metadata.bruteforce_mode   = loaded.metadata.bruteforce_mode
    /\ doc.whois           = loaded.whois
    /\ doc.subdomains      = loaded.subdomains
    /\ doc.subdomain_count = loaded.subdomain_count
    /\ doc.dns             = loaded.dns

\* C22: in a resumed run the controller changes nothing in the loaded
\* document but modules_executed, to which it appends.  In the document in
\* memory, in every written one and in the file, metadata.scan_type,
\* scan_timestamp, target, root_domain, is_subdomain_mode, anonymous_mode and
\* bruteforce_mode and the sections whois, subdomains, subdomain_count and dns
\* are as loaded, whatever modules the run has enabled; the rest differs from
\* the loaded document by what the phase collaborators returned only, and
\* each step's document is the collaborator's with at most its identifier
\* appended.
C22_ResumeKeepsLoaded ==
    resumed =>
        /\ \A doc \in RunDocuments \cup {Stored} :
              /\ KeepsLoaded(doc)
              /\ WithPhaseResultsOf(doc, loaded) = loaded
              /\ IsPrefix(modules_executed(loaded), modules_executed(doc))
        /\ \A phase \in PostIds :
              pc = phase =>
                 LET returned == RunPhase(phase, domain_result, runs)
                     recorded == ResumePhaseResult(phase, domain_result, runs)
                 IN  /\ [ recorded EXCEPT !.metadata.modules_executed =
                                             modules_executed(returned) ] = returned
                     /\ modules_executed(recorded) \in
                           { modules_executed(returned),
                             Append(modules_executed(returned), phase) }

\* a resumed run with other modules enabled than those of scan_type has
\* written a phase: scan_type and the time stamp are those of the earlier run
C22_Witness ==
    /\ resumed
    /\ pc = "done"
    /\ writes # <<>>
    /\ loaded.metadata.scan_type = <<"domain_discovery", "port_scan">>
    /\ SCAN_MODULES = {"http_probe", "github"}
    /\ Stored.metadata.scan_type = <<"domain_discovery", "port_scan">>
    /\ Stored.metadata.scan_timestamp = 1
    /\ Stored.http_probe.scan_timestamp = 2


====
